---- MODULE Spec2Model ----
(***************************************************************************)
(* Outbound-call dashboard: the dispatch endpoint (src/app/api/call/       *)
(* route.ts) and the form / history page (src/app/page.tsx).               *)
(*                                                                         *)
(* A JavaScript string is modelled as a sequence of one-character strings, *)
(* so that lengths, the phone pattern, trimming and markup escaping are    *)
(* computed character by character.                                        *)
(***************************************************************************)
EXTENDS Integers, Sequences, FiniteSets, TLC

VARIABLES
  form,      \* page.tsx useState: the form fields
  errors,    \* page.tsx useState: per-field validation messages
  script,    \* page.tsx useState: the preview script
  loading,   \* page.tsx useState: submission in progress
  callLog,   \* page.tsx useState: the in-memory history, a sequence of entries
  banner,    \* page.tsx useState: success / error banner
  page,      \* "unmounted" before the effects of a page load ran, else "mounted"
  storage,   \* localStorage item "calling-agent:log"
  net,       \* the fetch of handleSubmit that is in flight, if any
  env,       \* process.env of the endpoint: which TWILIO_* variables are set
  wire,      \* a request another HTTP client has sent to the endpoint, if any
  srv,       \* the endpoint's most recent exchange (request, provider calls, response)
  nextId,    \* number of crypto.randomUUID() values drawn so far
  clock,     \* the browser's clock, in ticks
  submits    \* number of handleSubmit invocations so far

vars == <<form, errors, script, loading, callLog, banner, page, storage, net,
          wire, env, srv, nextId, clock, submits>>

-----------------------------------------------------------------------------
(* Generic helpers on sequences and numbers                                *)

Min(a, b) == IF a < b THEN a ELSE b

Max(a, b) == IF a > b THEN a ELSE b

Take(s, n) == SubSeq(s, 1, Min(n, Len(s)))

RECURSIVE Concat(_)
Concat(ss) == IF ss = <<>> THEN <<>> ELSE Head(ss) \o Concat(Tail(ss))

Digit(d) ==
  CASE d = 0 -> "0" [] d = 1 -> "1" [] d = 2 -> "2" [] d = 3 -> "3" [] d = 4 -> "4"
    [] d = 5 -> "5" [] d = 6 -> "6" [] d = 7 -> "7" [] d = 8 -> "8" [] d = 9 -> "9"

RECURSIVE NatToString(_)
NatToString(n) ==
  IF n < 10 THEN <<Digit(n)>> ELSE NatToString(n \div 10) \o <<Digit(n % 10)>>

\* String(n) for an integer n, as a template literal renders it
NumberToString(n) == IF n < 0 THEN <<"-">> \o NatToString(0 - n) ELSE NatToString(n)

Digits == {"0", "1", "2", "3", "4", "5", "6", "7", "8", "9"}

\* White space as String.prototype.trim() sees it (the characters the model uses)
WhiteSpace == {" ", "\n", "\t"}

RECURSIVE TrimStart(_)
TrimStart(s) ==
  IF s # <<>> /\ Head(s) \in WhiteSpace THEN TrimStart(Tail(s)) ELSE s

RECURSIVE TrimEnd(_)
TrimEnd(s) ==
  IF s # <<>> /\ s[Len(s)] \in WhiteSpace THEN TrimEnd(SubSeq(s, 1, Len(s) - 1)) ELSE s

trim(s) == TrimEnd(TrimStart(s))

-----------------------------------------------------------------------------
(* JSON values of a request body                                           *)

Undefined == [t |-> "undefined"]

\* a JSON value that is not a string (a number, say)
NotAString == [t |-> "number"]

Str(s) == [t |-> "string", v |-> s]

IsStr(x) == x.t = "string"

\* The body request.json() gave no object for (invalid JSON gives undefined, line 24)
NoBody == [t |-> "undefined"]

(* A date-time string is modelled by its shape and the instant it denotes: *)
(*   "iso"      what Date.prototype.toISOString() produces                 *)
(*   "isoNaN"   shaped as an ISO date-time but denoting no instant         *)
(*   "local"    the value of a datetime-local input, YYYY-MM-DDTHH:mm      *)
(*   "text"     a string that is no date at all                            *)
(*   "empty"    the empty string                                           *)
DateString(fmt, ms) == [fmt |-> fmt, ms |-> ms]

EmptyDate == DateString("empty", 0)

\* Date.parse / new Date(string).getTime(): a number, or NaN
NaN == [kind |-> "nan", ms |-> 0]

Num(ms) == [kind |-> "num", ms |-> ms]

NoTime == [kind |-> "undefined", ms |-> 0]

DateParse(d) == IF d.fmt \in {"iso", "local"} THEN Num(d.ms) ELSE NaN

\* JavaScript truthiness of a number-or-undefined: NaN, 0 and undefined are falsy
Truthy(x) == x.kind = "num" /\ x.ms # 0

IsNaN(x) == x.kind = "nan"

-----------------------------------------------------------------------------
(* Request validation: the zod schemas                                     *)

\* A pattern that lets the first digit be 0
phoneRegexAnyFirstDigit(s) ==
  LET d == IF s # <<>> /\ Head(s) = "+" THEN Tail(s) ELSE s
  IN  /\ Len(d) >= 1 + 7
      /\ Len(d) <= 1 + 14
      /\ \A i \in 1..Len(d) : d[i] \in Digits

\* /^\+?[1-9]\d{7,14}$/ (route.ts line 7; page.tsx line 12 repeats the literal)
phoneRegex(s) ==
  LET d == IF s # <<>> /\ Head(s) = "+" THEN Tail(s) ELSE s
  IN  /\ Len(d) >= 1 + 7
      /\ Len(d) <= 1 + 14
      /\ d[1] \in Digits \ {"0"}
      /\ \A i \in 2..Len(d) : d[i] \in Digits

scriptStyles == {"friendly", "direct", "consultative"}

Issue(path, message) == [path |-> path, message |-> message]

\* z.string().min(n): the issues of one required string field
stringMin(path, x, n, message) ==
  IF x.t = "undefined" THEN <<Issue(path, "Required")>>
  ELSE IF ~IsStr(x) THEN <<Issue(path, "Expected string, received number")>>
  ELSE IF Len(x.v) < n THEN <<Issue(path, message)>>
  ELSE <<>>

\* z.string().regex(phone pattern)
stringRegex(path, x, message) ==
  IF x.t = "undefined" THEN <<Issue(path, "Required")>>
  ELSE IF ~IsStr(x) THEN <<Issue(path, "Expected string, received number")>>
  ELSE IF ~phoneRegex(x.v) THEN <<Issue(path, message)>>
  ELSE <<>>

\* z.enum(["friendly", "direct", "consultative"])
styleEnum(path, x) ==
  IF x.t = "undefined" THEN <<Issue(path, "Required")>>
  ELSE IF ~IsStr(x) \/ x.v \notin scriptStyles THEN <<Issue(path, "Invalid enum value")>>
  ELSE <<>>

\* z.string().datetime().optional(): only the toISOString shape passes
datetimeOptional(path, x) ==
  IF x.t = "undefined" THEN <<>>
  ELSE IF ~IsStr(x) THEN <<Issue(path, "Expected string, received number")>>
  ELSE IF x.v.fmt \notin {"iso", "isoNaN"} THEN <<Issue(path, "Invalid datetime")>>
  ELSE <<>>

\* z.string().optional()
stringOptional(path, x) ==
  IF x.t = "undefined" \/ IsStr(x) THEN <<>>
  ELSE <<Issue(path, "Expected string, received number")>>

\* requestSchema.safeParse(body).error.issues, in the order of the schema's keys
requestSchema(body) ==
  IF body = NoBody THEN <<Issue("", "Required")>>
  ELSE stringMin("contactName", body.contactName, 1,
                 "String must contain at least 1 character(s)")
    \o stringRegex("phoneNumber", body.phoneNumber, "Invalid")
    \o stringMin("objective", body.objective, 1,
                 "String must contain at least 1 character(s)")
    \o styleEnum("scriptStyle", body.scriptStyle)
    \o datetimeOptional("scheduledAt", body.scheduledAt)
    \o stringOptional("notes", body.notes)

\* callRequestSchema.safeParse(form).error.issues (the form holds strings only)
callRequestSchema(f) ==
  stringMin("contactName", Str(f.contactName), 2, "Contact name is required")
    \o stringRegex("phoneNumber", Str(f.phoneNumber),
                   "Provide a valid E.164 formatted number (e.g. +15551234567)")
    \o stringMin("objective", Str(f.objective), 3, "Share a brief objective for the call")
    \o styleEnum("scriptStyle", Str(f.scriptStyle))

-----------------------------------------------------------------------------
(* The spoken script and its markup (route.ts lines 14-21, 77-84, 120-138) *)

SayIntroHead ==
  <<"H","i"," ">>

SayIntroTail ==
  <<","," ","t","h","i","s"," ","i","s"," ","y","o","u","r"," ","a","u","t","o","m","a","t",
    "e","d"," ","o","u","t","r","e","a","c","h"," ","a","g","e","n","t"," ","c","a","l","l",
    "i","n","g"," ","f","r","o","m"," ","o","u","r"," ","t","e","a","m",".">>

SayObjectiveHead ==
  <<"O","b","j","e","c","t","i","v","e"," ","f","o","r"," ","t","o","d","a","y",":"," ">>

SayNotesHead ==
  <<"N","o","t","e","s"," ","f","r","o","m"," ","t","h","e"," ","t","e","a","m",":"," ">>

Dot ==
  <<".">>

SignOffFriendly ==
  <<"T","h","a","n","k","s"," ","a","g","a","i","n"," ","f","o","r"," ","t","a","k","i","n",
    "g"," ","t","h","e"," ","t","i","m","e"," ","t","o","d","a","y","."," ","L","o","o","k",
    "i","n","g"," ","f","o","r","w","a","r","d"," ","t","o"," ","c","o","n","n","e","c","t",
    "i","n","g"," ","s","o","o","n","!">>

SignOffDirect ==
  <<"P","l","e","a","s","e"," ","c","o","n","f","i","r","m"," ","i","f"," ","w","e"," ","c",
    "a","n"," ","p","r","o","c","e","e","d",","," ","o","r"," ","l","e","t"," ","m","e"," ",
    "k","n","o","w"," ","t","h","e"," ","b","e","s","t"," ","d","e","c","i","s","i","o","n",
    " ","m","a","k","e","r"," ","t","o"," ","e","n","g","a","g","e",".">>

SignOffConsultative ==
  <<"I"," ","a","p","p","r","e","c","i","a","t","e"," ","y","o","u","r"," ","i","n","s","i",
    "g","h","t","s","."," ","L","e","t","'","s"," ","a","l","i","g","n"," ","o","n"," ","t",
    "h","e"," ","b","e","s","t"," ","p","a","t","h"," ","f","o","r","w","a","r","d"," ","t",
    "o","g","e","t","h","e","r",".">>

voice ==
  <<"P","o","l","l","y",".","J","o","a","n","n","a">>

ResponseOpen ==
  <<"<","R","e","s","p","o","n","s","e",">">>

ResponseClose ==
  <<"<","H","a","n","g","u","p","/",">","<","/","R","e","s","p","o","n","s","e",">">>

PauseOpen ==
  <<"<","P","a","u","s","e"," ","l","e","n","g","t","h","=","\"">>

PauseClose ==
  <<"\""," ","/",">">>

SayOpenHead ==
  <<"<","S","a","y"," ","v","o","i","c","e","=","\"">>

SayOpenTail ==
  <<"\"",">">>

SayClose ==
  <<"<","/","S","a","y",">">>

EntAmp ==
  <<"&","a","m","p",";">>

EntLt ==
  <<"&","l","t",";">>

EntGt ==
  <<"&","g","t",";">>

EntQuot ==
  <<"&","q","u","o","t",";">>


\* styleSignOff[scriptStyle]
styleSignOff(style) ==
  CASE style = "friendly" -> SignOffFriendly
    [] style = "direct" -> SignOffDirect
    [] style = "consultative" -> SignOffConsultative

\* value.replace(/ch/g, entity): one left-to-right pass over value
RECURSIVE replace(_, _, _)
replace(value, ch, entity) ==
  IF value = <<>> THEN <<>>
  ELSE (IF Head(value) = ch THEN entity ELSE <<Head(value)>>)
         \o replace(Tail(value), ch, entity)

\* A mis-ordered escape: the ampersand pass runs last and escapes the entities again
escapeAmpersandLast(value) ==
  replace(replace(replace(replace(value, "<", EntLt), ">", EntGt), "\"", EntQuot),
          "&", EntAmp)

escapeForTwiml(value) ==
  replace(replace(replace(replace(value, "&", EntAmp), "<", EntLt), ">", EntGt),
          "\"", EntQuot)

\* `<Say voice="${voice}">${escapeForTwiml(line)}</Say>`
sayBlock(line) == SayOpenHead \o voice \o SayOpenTail \o escapeForTwiml(line) \o SayClose

\* The ceiling of the Pause element, in seconds
MaxPauseSeconds == 600

buildTwiml(lines, delaySeconds) ==
  LET pause == IF delaySeconds # 0
               THEN PauseOpen \o NumberToString(Min(delaySeconds, MaxPauseSeconds))
                      \o PauseClose
               ELSE <<>>
      sayBlocks == Concat([i \in 1..Len(lines) |-> sayBlock(lines[i])])
  IN  ResponseOpen \o pause \o sayBlocks \o ResponseClose

\* [intro, objective, notes?, sign-off].filter(Boolean)
scriptSegments(data) ==
  <<SayIntroHead \o data.contactName.v \o SayIntroTail,
    SayObjectiveHead \o data.objective.v \o Dot>>
  \o (IF IsStr(data.notes) /\ data.notes.v # <<>>
      THEN <<SayNotesHead \o data.notes.v \o Dot>> ELSE <<>>)
  \o <<styleSignOff(data.scriptStyle.v)>>

-----------------------------------------------------------------------------
(* The dispatch endpoint (route.ts lines 23-118)                           *)

\* scheduledAt ? Date.parse(scheduledAt) : undefined (line 54)
scheduleTimeOf(scheduledAt) ==
  IF IsStr(scheduledAt) /\ scheduledAt.v.fmt # "empty"
  THEN DateParse(scheduledAt.v) ELSE NoTime

\* A delay computed without asking whether the schedule lies ahead
delayNoFutureTest(scheduleTime, now) ==
  IF Truthy(scheduleTime) THEN (scheduleTime.ms - now) \div 1000 ELSE 0

\* lines 63-64 (\div rounds down, as Math.floor does)
delaySecondsOf(scheduleTime, now) ==
  IF Truthy(scheduleTime) /\ scheduleTime.ms > now
  THEN (scheduleTime.ms - now) \div 1000 ELSE 0

\* A limit that already rejects a delay of exactly ten minutes
tooFarAheadInclusive(delaySeconds) == delaySeconds >= MaxPauseSeconds

\* line 66
tooFarAhead(delaySeconds) == delaySeconds > MaxPauseSeconds

\* A status that reports every call as in progress
callStatusAlwaysInProgress(delaySeconds) == "in-progress"

\* line 103
callStatusOf(delaySeconds) == IF delaySeconds # 0 THEN "queued" ELSE "in-progress"

Message(text, n) == [text |-> text, n |-> n]

\* NextResponse.json(...): callSid "" and callStatus "none" stand for absent keys
Response(status, success, message, callSid, callStatus) ==
  [status |-> status, success |-> success, message |-> message,
   callSid |-> callSid, callStatus |-> callStatus]

\* What one run of POST did: the delay it computed (if it got that far), the calls it
\* made to client.calls.create, and the response it returned
Exchange(body, now, computed, delaySeconds, calls, response) ==
  [body |-> body, now |-> now, delayComputed |-> computed,
   delaySeconds |-> delaySeconds, calls |-> calls, response |-> response]

\* A credentials check that is skipped
credentialsNotChecked(e) == TRUE

credentialsSet(e) == e.TWILIO_ACCOUNT_SID /\ e.TWILIO_AUTH_TOKEN /\ e.TWILIO_FROM_NUMBER

\* outcome: what client.calls.create does ("created", "error": throws an Error,
\* "thrown": throws something that is no Error)
POST(body, e, now, outcome) ==
  LET issues == requestSchema(body)
      scheduleTime == scheduleTimeOf(body.scheduledAt)
      delaySeconds == delaySecondsOf(scheduleTime, now)
      twiml == buildTwiml(scriptSegments(body), delaySeconds)
      call == [to |-> body.phoneNumber.v, twiml |-> twiml]
  IN
  IF issues # <<>> THEN
    Exchange(body, now, FALSE, 0, <<>>,
             Response(400, FALSE, Message(issues[1].message, 0), "", "none"))
  ELSE IF ~credentialsSet(e) THEN
    Exchange(body, now, FALSE, 0, <<>>,
             Response(500, FALSE, Message("Twilio credentials are missing.", 0),
                      "", "none"))
  ELSE IF Truthy(scheduleTime) /\ IsNaN(scheduleTime) THEN
    Exchange(body, now, FALSE, 0, <<>>,
             Response(400, FALSE,
                      Message("scheduledAt must be a valid ISO date string.", 0),
                      "", "none"))
  ELSE IF tooFarAhead(delaySeconds) THEN
    Exchange(body, now, TRUE, delaySeconds, <<>>,
             Response(422, FALSE,
                      Message("Scheduling more than 10 minutes ahead is not supported.", 0),
                      "", "none"))
  ELSE IF outcome = "created" THEN
    Exchange(body, now, TRUE, delaySeconds, <<call>>,
             Response(200, TRUE,
                      IF delaySeconds # 0
                      THEN Message("Call scheduled in ${delaySeconds} seconds.", delaySeconds)
                      ELSE Message("Call initiated successfully.", 0),
                      "CA-sid", callStatusOf(delaySeconds)))
  ELSE
    Exchange(body, now, TRUE, delaySeconds, <<call>>,
             Response(502, FALSE,
                      IF outcome = "error"
                      THEN Message("Twilio error: ${error.message}", 0)
                      ELSE Message("Unknown error while creating Twilio call.", 0),
                      "", "none"))

Outcomes == {"created", "error", "thrown"}


-----------------------------------------------------------------------------
(* The preview script (page.tsx lines 31-53, 400-411). Each heading starts  *)
(* with a pictograph, written here as one element such as "(icon-intro)".   *)

IntroHeading ==
  <<"(icon-intro)"," ","I","n","t","r","o","\n","\"">>

ObjectiveHeading ==
  <<"(icon-objective)"," ","O","b","j","e","c","t","i","v","e","\n","\"">>

ToneHeading ==
  <<"(icon-tone)"," ","T","o","n","e","\n">>

FlowHeading ==
  <<"(icon-flow)"," ","F","l","o","w","\n">>

ClosingHeading ==
  <<"(icon-closing)"," ","C","l","o","s","i","n","g","\n">>

NotesHeading ==
  <<"(icon-notes)"," ","N","o","t","e","s"," ","f","r","o","m"," ","y","o","u","\n">>

IntroAfterName ==
  <<","," ","t","h","i","s"," ","i","s"," ","y","o","u","r"," ","o","u","t","r","e","a","c",
    "h"," ","a","g","e","n","t"," ","c","a","l","l","i","n","g"," ","o","n"," ","b","e","h",
    "a","l","f"," ","o","f"," ","o","u","r"," ","t","e","a","m","."," ","D","o"," ","y","o",
    "u"," ","h","a","v","e"," ","a"," ","q","u","i","c","k"," ","m","i","n","u","t","e"," ",
    "t","o"," ","t","a","l","k","?","\"">>

NameFallback ==
  <<"t","h","e","r","e">>

ObjectiveFallback ==
  <<"I","'","d"," ","l","o","v","e"," ","t","o"," ","s","h","a","r","e"," ","w","h","y"," ",
    "I","'","m"," ","r","e","a","c","h","i","n","g"," ","o","u","t"," ","a","n","d"," ","e",
    "x","p","l","o","r","e"," ","h","o","w"," ","w","e"," ","c","a","n"," ","c","o","l","l",
    "a","b","o","r","a","t","e",".">>

ToneFriendly ==
  <<"C","o","n","v","e","r","s","a","t","i","o","n","a","l"," ","t","o","n","e",","," ","e",
    "m","p","h","a","s","i","z","e"," ","r","a","p","p","o","r","t"," ","b","u","i","l","d",
    "i","n","g"," ","a","n","d"," ","v","a","l","u","e",".">>

ToneDirect ==
  <<"T","o","-","t","h","e","-","p","o","i","n","t"," ","d","e","l","i","v","e","r","y",",",
    " ","f","o","c","u","s"," ","o","n"," ","c","l","e","a","r"," ","R","O","I"," ","a","n",
    "d"," ","d","e","c","i","s","i","o","n"," ","m","a","k","i","n","g",".">>

ToneConsultative ==
  <<"E","m","p","a","t","h","e","t","i","c",","," ","q","u","e","s","t","i","o","n","-","d",
    "r","i","v","e","n"," ","t","o","n","e"," ","h","i","g","h","l","i","g","h","t","i","n",
    "g"," ","t","a","i","l","o","r","e","d"," ","i","n","s","i","g","h","t","s",".">>

ClosingFriendly ==
  <<"T","h","a","n","k"," ","t","h","e","m"," ","f","o","r"," ","t","h","e","i","r"," ","t",
    "i","m","e"," ","a","n","d"," ","c","o","n","f","i","r","m"," ","n","e","x","t"," ","s",
    "t","e","p","s"," ","w","i","t","h"," ","a"," ","p","o","s","i","t","i","v","e"," ","n",
    "o","t","e",".">>

ClosingDirect ==
  <<"A","s","k"," ","d","i","r","e","c","t","l","y"," ","f","o","r"," ","c","o","m","m","i",
    "t","m","e","n","t"," ","a","n","d"," ","p","r","o","v","i","d","e"," ","a"," ","c","l",
    "e","a","r"," ","c","h","a","n","n","e","l"," ","f","o","r"," ","f","o","l","l","o","w",
    "-","u","p",".">>

ClosingConsultative ==
  <<"S","u","m","m","a","r","i","z","e"," ","d","i","a","g","n","o","s","e","d"," ","n","e",
    "e","d","s"," ","a","n","d"," ","r","e","c","o","m","m","e","n","d"," ","a"," ","c","o",
    "l","l","a","b","o","r","a","t","i","v","e"," ","n","e","x","t"," ","s","t","e","p",".">>

FlowSteps ==
  <<"1","."," ","E","s","t","a","b","l","i","s","h"," ","r","a","p","p","o","r","t"," ","a",
    "n","d"," ","c","o","n","f","i","r","m"," ","c","o","n","t","e","x","t",".","\n","2",
    "."," ","S","h","a","r","e"," ","k","e","y"," ","v","a","l","u","e"," ","p","r","o","p",
    "o","s","i","t","i","o","n"," ","t","a","i","l","o","r","e","d"," ","t","o"," ","t","h",
    "e"," ","c","o","n","t","a","c","t",".","\n","3","."," ","A","s","k"," ","o","n","e",
    " ","h","i","g","h","-","i","m","p","a","c","t"," ","q","u","e","s","t","i","o","n"," ",
    "t","o"," ","s","u","r","f","a","c","e"," ","n","e","e","d","s",".","\n","4","."," ",
    "O","f","f","e","r"," ","n","e","x","t"," ","s","t","e","p"," ","a","l","i","g","n","e",
    "d"," ","w","i","t","h"," ","t","h","e"," ","o","b","j","e","c","t","i","v","e",".",
    "\n","5","."," ","C","o","n","f","i","r","m"," ","b","e","s","t"," ","f","o","l","l",
    "o","w","-","u","p"," ","c","h","a","n","n","e","l"," ","a","n","d"," ","a","v","a","i",
    "l","a","b","i","l","i","t","y",".">>

IntroHi == <<"H", "i", " ">>

Quote == <<"\"">>

BlankLine == <<"\n", "\n">>

\* stylePresets[style].tone and .closing
stylePresetTone(style) ==
  CASE style = "friendly" -> ToneFriendly
    [] style = "direct" -> ToneDirect
    [] style = "consultative" -> ToneConsultative

stylePresetClosing(style) ==
  CASE style = "friendly" -> ClosingFriendly
    [] style = "direct" -> ClosingDirect
    [] style = "consultative" -> ClosingConsultative

\* a || b on strings: the empty string is the only falsy one
OrElse(a, b) == IF a # <<>> THEN a ELSE b

\* segments.join("\n\n")
RECURSIVE join(_, _)
join(segments, sep) ==
  IF segments = <<>> THEN <<>>
  ELSE IF Len(segments) = 1 THEN Head(segments)
  ELSE Head(segments) \o sep \o join(Tail(segments), sep)

\* The segments of generateScript before they are joined (lines 401-408)
scriptPreviewSegments(f) ==
  <<IntroHeading \o IntroHi \o OrElse(f.contactName, NameFallback) \o IntroAfterName,
    ObjectiveHeading \o OrElse(f.objective, ObjectiveFallback) \o Quote,
    ToneHeading \o stylePresetTone(f.scriptStyle),
    FlowHeading \o FlowSteps,
    ClosingHeading \o stylePresetClosing(f.scriptStyle)>>
  \o (IF f.notes # <<>> THEN <<NotesHeading \o f.notes>> ELSE <<>>)

generateScript(f) == join(scriptPreviewSegments(f), BlankLine)

-----------------------------------------------------------------------------
(* The page: form, validation, submission, history (page.tsx lines 55-174) *)

FieldNames == {"contactName", "phoneNumber", "objective", "scriptStyle", "scheduledAt",
               "notes"}

\* useState initial values (lines 56-68)
InitialForm ==
  [contactName |-> <<>>, phoneNumber |-> <<>>, objective |-> <<>>,
   scriptStyle |-> "consultative", scheduledAt |-> EmptyDate, notes |-> <<>>]

NoErrors == [k \in FieldNames |-> ""]

NoBanner == [tone |-> "none", message |-> Message("", 0)]

\* fieldErrors of handleSubmit (lines 110-115): the last issue of a field wins
fieldErrorsOf(issues) ==
  [k \in FieldNames |->
     LET own == SelectSeq(issues, LAMBDA i : i.path = k)
     IN  IF own = <<>> THEN "" ELSE own[Len(own)].message]

\* new Date(form.scheduledAt).toISOString() throws a RangeError on an invalid date
toISOStringThrows(f) ==
  f.scheduledAt.fmt # "empty" /\ IsNaN(DateParse(f.scheduledAt))

\* payload of handleSubmit (lines 121-125), as the JSON body that is sent
payloadOf(f) ==
  [contactName |-> Str(f.contactName),
   phoneNumber |-> Str(f.phoneNumber),
   objective |-> Str(f.objective),
   scriptStyle |-> Str(f.scriptStyle),
   scheduledAt |-> IF f.scheduledAt.fmt # "empty"
                   THEN Str(DateString("iso", DateParse(f.scheduledAt).ms))
                   ELSE Undefined,
   notes |-> IF trim(f.notes) # <<>> THEN Str(trim(f.notes)) ELSE Undefined]

\* A status taken from the success flag alone
statusBySuccessOnly(data) == IF data.success THEN "queued" ELSE "failed"

\* data.status ?? (data.success ? "queued" : "failed") (line 146)
logStatusOf(data) ==
  IF data.callStatus # "none" THEN data.callStatus
  ELSE IF data.success THEN "queued" ELSE "failed"

\* logItem (lines 142-149)
logItemOf(payload, data, id, createdAt) ==
  [contactName |-> payload.contactName, phoneNumber |-> payload.phoneNumber,
   objective |-> payload.objective, scriptStyle |-> payload.scriptStyle,
   scheduledAt |-> payload.scheduledAt, notes |-> payload.notes,
   id |-> id, createdAt |-> createdAt, status |-> logStatusOf(data),
   message |-> data.message,
   confirmationSid |-> IF data.callSid # "" THEN Str(data.callSid) ELSE Undefined]

\* The history cap of line 151
HistoryCap == 20

\* A prepend that forgets the cap
prependUncapped(logItem, prev) == <<logItem>> \o prev

\* [logItem, ...prev].slice(0, 20) (line 151)
prepend(logItem, prev) == Take(<<logItem>> \o prev, HistoryCap)

(* localStorage: JSON.stringify drops the keys whose value is undefined, and *)
(* a key that is absent after JSON.parse reads as undefined.                *)
EntryKeys == {"contactName", "phoneNumber", "objective", "scriptStyle", "scheduledAt",
              "notes", "id", "createdAt", "status", "message", "confirmationSid"}

OptionalKeys == {"scheduledAt", "notes", "confirmationSid"}

stringifyEntry(e) ==
  [k \in {k \in EntryKeys : ~(k \in OptionalKeys /\ e[k] = Undefined)} |-> e[k]]

parseEntry(o) == [k \in EntryKeys |-> IF k \in DOMAIN o THEN o[k] ELSE Undefined]

JSONstringify(log) == [i \in 1..Len(log) |-> stringifyEntry(log[i])]

JSONparse(text) == [i \in 1..Len(text) |-> parseEntry(text[i])]

NoItem == [kind |-> "none", text |-> <<>>]

Corrupt == [kind |-> "corrupt", text |-> <<>>]

Item(text) == [kind |-> "json", text |-> text]

\* The save effect (lines 82-86): an empty list is not written
saveEffect(log, stored) == IF Len(log) # 0 THEN Item(JSONstringify(log)) ELSE stored

NoFetch == [stage |-> "none"]

-----------------------------------------------------------------------------
(* Bounds and input sets                                                   *)

\* handleSubmit invocations explored in the full page / endpoint specification
MaxSubmits == 2

\* handleSubmit invocations explored in the history specification
MaxHistorySubmits == 22

Envs == [TWILIO_ACCOUNT_SID : BOOLEAN, TWILIO_AUTH_TOKEN : BOOLEAN,
         TWILIO_FROM_NUMBER : BOOLEAN]

AllSet == [TWILIO_ACCOUNT_SID |-> TRUE, TWILIO_AUTH_TOKEN |-> TRUE,
           TWILIO_FROM_NUMBER |-> TRUE]

NoneSet == [TWILIO_ACCOUNT_SID |-> FALSE, TWILIO_AUTH_TOKEN |-> FALSE,
            TWILIO_FROM_NUMBER |-> FALSE]

-----------------------------------------------------------------------------
(* Initial state: a tab whose effects have not run yet                     *)

InitPage ==
  /\ form = InitialForm
  /\ errors = NoErrors
  /\ script = <<>>
  /\ loading = FALSE
  /\ callLog = <<>>
  /\ banner = NoBanner
  /\ page = "unmounted"
  /\ net = NoFetch
  /\ srv = <<>>
  /\ nextId = 0
  /\ clock = 0
  /\ submits = 0


-----------------------------------------------------------------------------
(* Page actions                                                            *)

\* A page load (first load or reload): state is reset to the useState defaults and the
\* three effects run: load (lines 70-80), save (82-86), script (88-90)
PageLoad ==
  LET parsed == IF storage.kind = "json" THEN JSONparse(storage.text) ELSE <<>>
      afterLoad == IF storage.kind = "corrupt" THEN NoItem ELSE storage
  IN  /\ page' = "mounted"
      /\ form' = InitialForm
      /\ errors' = NoErrors
      /\ loading' = FALSE
      /\ banner' = NoBanner
      /\ callLog' = parsed
      /\ storage' = saveEffect(parsed, afterLoad)
      /\ script' = generateScript(InitialForm)
      /\ net' = NoFetch
      /\ UNCHANGED <<wire, env, srv, nextId, clock, submits>>

\* handleChange (lines 99-102) and the script effect (lines 88-90)
handleChange(key, value) ==
  /\ page = "mounted"
  /\ form[key] # value
  /\ form' = [form EXCEPT ![key] = value]
  /\ errors' = [errors EXCEPT ![key] = ""]
  /\ script' = generateScript(form')
  /\ UNCHANGED <<loading, callLog, banner, page, storage, net, wire, env, srv, nextId,
                 clock, submits>>

\* handleSubmit up to the await of fetch (lines 104-134); the submit button is
\* disabled while loading (line 320)
handleSubmit(bound) ==
  /\ page = "mounted"
  /\ ~loading
  /\ submits < bound
  /\ submits' = submits + 1
  /\ banner' = NoBanner
  /\ LET issues == callRequestSchema(form)
     IN  IF issues # <<>> THEN
           /\ errors' = fieldErrorsOf(issues)
           /\ loading' = FALSE
           /\ net' = net
         ELSE IF toISOStringThrows(form) THEN
           \* the RangeError leaves handleSubmit before the try block
           /\ errors' = errors
           /\ loading' = TRUE
           /\ net' = net
         ELSE
           /\ errors' = errors
           /\ loading' = TRUE
           /\ net' = [stage |-> "request", payload |-> payloadOf(form)]
  /\ UNCHANGED <<form, script, callLog, page, storage, wire, env, srv, nextId, clock>>

\* The endpoint serves the request of the fetch in flight
ServeFetch(nows, outcomes) ==
  /\ net.stage = "request"
  /\ \E now \in nows, outcome \in outcomes :
       LET x == POST(net.payload, env, now, outcome)
       IN  /\ srv' = <<x>>
           /\ net' = [stage |-> "response", payload |-> net.payload,
                      data |-> x.response]
  /\ UNCHANGED <<form, errors, script, loading, callLog, banner, page, storage, wire,
                 env, nextId, clock, submits>>

\* fetch or response.json() rejects: catch and finally (lines 164-173)
FetchFails ==
  /\ net.stage \in {"request", "response"}
  /\ banner' = [tone |-> "error",
                message |-> Message("We could not reach the calling service.", 0)]
  /\ loading' = FALSE
  /\ net' = NoFetch
  /\ UNCHANGED <<form, errors, script, callLog, page, storage, wire, env, srv, nextId,
                 clock, submits>>

\* The response arrives (lines 135-163, 171-173), then the save and script effects
FetchResolves(elapsed) ==
  /\ net.stage = "response"
  /\ \E dt \in elapsed :
       LET data == net.data
           logItem == logItemOf(net.payload, data, nextId + 1, clock + dt)
       IN  /\ clock' = clock + dt
           /\ nextId' = nextId + 1
           /\ callLog' = prepend(logItem, callLog)
           /\ banner' = [tone |-> IF data.success THEN "success" ELSE "error",
                         message |-> data.message]
           /\ form' = IF data.success
                      THEN [form EXCEPT !.notes = <<>>, !.scheduledAt = EmptyDate]
                      ELSE form
           /\ script' = generateScript(form')
           /\ storage' = saveEffect(callLog', storage)
  /\ loading' = FALSE
  /\ net' = NoFetch
  /\ UNCHANGED <<errors, page, wire, env, srv, submits>>

\* The Clear button (line 347), then the save effect
ClearHistory ==
  /\ page = "mounted"
  /\ callLog' = <<>>
  /\ storage' = saveEffect(callLog', storage)
  /\ UNCHANGED <<form, errors, script, loading, banner, page, net, wire, env, srv,
                 nextId, clock, submits>>

\* The endpoint serves a request sent by another HTTP client
DirectPost ==
  /\ wire # <<>>
  /\ \E outcome \in Outcomes :
       srv' = <<POST(wire[1].body, env, wire[1].now, outcome)>>
  /\ wire' = <<>>
  /\ UNCHANGED <<form, errors, script, loading, callLog, banner, page, storage, net,
                 env, nextId, clock, submits>>

-----------------------------------------------------------------------------
(* Input sets                                                              *)

\* Processing times of the endpoint, in epoch milliseconds
Nows == {1000000, 1000500}

\* Instants a schedule may denote: the epoch, the past, the processing time itself, and
\* 0.999 s, 300 s, 600 s, 600.999 s, 601 s and 20 min after 1000000
Instants == {0, 999000, 1000000, 1000999, 1300000, 1600000, 1600999, 1601000,
             2200000}

Body(n, p, o, s, d, nt) ==
  [contactName |-> n, phoneNumber |-> p, objective |-> o, scriptStyle |-> s,
   scheduledAt |-> d, notes |-> nt]

PhoneValid == <<"+", "1", "5", "5", "5", "1", "2", "3", "4", "5", "6", "7">>

PhoneShortest == <<"1", "5", "5", "5", "1", "2", "3", "4">>

PhoneLongest ==
  <<"+", "1", "5", "5", "5", "1", "2", "3", "4", "5", "6", "7", "8", "9", "0", "1">>

PhoneTooShort == <<"1", "5", "5", "5", "1", "2", "3">>

PhoneTooLong ==
  <<"1", "5", "5", "5", "1", "2", "3", "4", "5", "6", "7", "8", "9", "0", "1", "2">>

PhoneLeadingZero == <<"0", "5", "5", "5", "1", "2", "3", "4", "5", "6", "7">>

PhoneWithLetter == <<"+", "1", "5", "5", "5", "1", "2", "3", "4", "5", "6", "x">>

ServerNames == {NotAString, Str(<<>>), Str(<<"A">>), Str(<<"<", "&", ">">>)}

ServerPhones == {Str(PhoneValid), Str(PhoneShortest), Str(PhoneLongest),
                 Str(PhoneTooShort), Str(PhoneTooLong), Str(PhoneLeadingZero),
                 Str(PhoneWithLetter)}

ServerObjectives == {Str(<<>>), Str(<<"H", "i">>), Str(<<"&", "a", "m", "p", ";">>)}

ServerStyles == {Str("friendly"), Str("direct"), Str("consultative"), Str("rude")}

ServerSchedules ==
  {Undefined, Str(DateString("isoNaN", 0)), Str(DateString("local", 1300000)),
   Str(DateString("text", 0))}
  \cup {Str(DateString("iso", ms)) : ms \in Instants}

ServerNotes == {Undefined, Str(<<>>), Str(<<"\"", "<", "&", ">">>)}

ServerBodies ==
  {NoBody} \cup
  {Body(n, p, o, s, d, nt) : n \in ServerNames, p \in ServerPhones,
     o \in ServerObjectives, s \in ServerStyles, d \in ServerSchedules,
     nt \in ServerNotes}

-----------------------------------------------------------------------------
(* Specification of the endpoint alone: one request from any HTTP client   *)

InitServer ==
  /\ InitPage
  /\ storage = NoItem
  /\ env \in Envs
  /\ \E body \in ServerBodies, now \in Nows : wire = <<[body |-> body, now |-> now]>>

NextServer == DirectPost

SpecServer == InitServer /\ [][NextServer]_vars

-----------------------------------------------------------------------------
(* Specification of the page and the endpoint together                     *)

\* What the user types or picks, field by field
Edits ==
  {<<"contactName", <<"J", "o">> >>, <<"phoneNumber", PhoneValid>>,
   <<"objective", <<"D", "e", "m", "o">> >>}
  \cup {<<"scheduledAt", v>> : v \in {EmptyDate, DateString("local", 1300000),
                                      DateString("text", 0)}}

\* The browser clock advances by one tick between two responses
Elapsed == {1}

Init ==
  /\ InitPage
  /\ storage = NoItem
  /\ env = AllSet
  /\ wire = <<>>

Change == \E e \in Edits : handleChange(e[1], e[2])

Submit == handleSubmit(MaxSubmits)

Serve == ServeFetch({1000000}, Outcomes)

Resolve == FetchResolves(Elapsed)

Next ==
  \/ PageLoad
  \/ Change
  \/ Submit
  \/ Serve
  \/ FetchFails
  \/ Resolve
  \/ ClearHistory

Spec == Init /\ [][Next]_vars

-----------------------------------------------------------------------------
(* Specification of the history: many submissions of one valid form        *)

HistoryEdits ==
  {<<"contactName", <<"J", "o">> >>, <<"phoneNumber", PhoneValid>>,
   <<"objective", <<"D", "e", "m", "o">> >>}

InitHistory ==
  /\ InitPage
  /\ storage \in {NoItem, Corrupt}
  /\ env \in {AllSet, NoneSet}
  /\ wire = <<>>

ChangeHistory == \E e \in HistoryEdits : handleChange(e[1], e[2])

SubmitHistory == handleSubmit(MaxHistorySubmits)

ServeHistory == ServeFetch({1000000}, {"created"})

NextHistory ==
  \/ PageLoad
  \/ ChangeHistory
  \/ SubmitHistory
  \/ ServeHistory
  \/ FetchFails
  \/ Resolve
  \/ ClearHistory

SpecHistory == InitHistory /\ [][NextHistory]_vars

-----------------------------------------------------------------------------
(* Specification of validation: phone numbers typed into the form and sent *)
(* to the endpoint by other HTTP clients                                   *)

\* handleSubmit invocations explored in the validation specification
MaxValidationSubmits == 1

ValidationEdits ==
  {<<"contactName", v>> : v \in {<<>>, <<"J", "o">>}}
  \cup {<<"phoneNumber", v>> : v \in {<<>>, PhoneValid, PhoneTooShort, PhoneTooLong,
                                      PhoneLeadingZero, PhoneWithLetter}}
  \cup {<<"objective", <<"D", "e", "m", "o">> >>}

ValidationBodies ==
  {Body(n, p, Str(<<"D", "e", "m", "o">>), Str("direct"), Undefined, Undefined) :
     n \in {Str(<<>>), Str(<<"J", "o">>)},
     p \in {Str(PhoneValid), Str(PhoneShortest), Str(PhoneLongest), Str(PhoneTooShort),
            Str(PhoneTooLong), Str(PhoneLeadingZero), Str(PhoneWithLetter), Str(<<>>)}}

InitValidation ==
  /\ InitPage
  /\ storage = NoItem
  /\ env = AllSet
  /\ \E body \in ValidationBodies : wire = <<[body |-> body, now |-> 1000000]>>

ChangeValidation == \E e \in ValidationEdits : handleChange(e[1], e[2])

SubmitValidation == handleSubmit(MaxValidationSubmits)

ServeValidation == ServeFetch({1000000}, {"created"})

NextValidation ==
  \/ PageLoad
  \/ ChangeValidation
  \/ SubmitValidation
  \/ ServeValidation
  \/ FetchFails
  \/ Resolve
  \/ ClearHistory
  \/ DirectPost

SpecValidation == InitValidation /\ [][NextValidation]_vars

-----------------------------------------------------------------------------
(* Specification of the preview: the script follows every edit of the form *)

ScriptEdits ==
  {<<"contactName", v>> : v \in {<<>>, <<"J", "o">>}}
  \cup {<<"phoneNumber", v>> : v \in {<<>>, PhoneValid}}
  \cup {<<"objective", v>> : v \in {<<>>, <<"D", "e", "m", "o">>}}
  \cup {<<"scriptStyle", v>> : v \in scriptStyles}
  \cup {<<"notes", v>> : v \in {<<>>, <<" ">>, <<"\n", "\t">>, <<" ", "n">>,
                                <<"a", "\n", "\n", "b">>}}

InitScript ==
  /\ InitPage
  /\ storage = NoItem
  /\ env = AllSet
  /\ wire = <<>>

ChangeScript == \E e \in ScriptEdits : handleChange(e[1], e[2])

NextScript ==
  \/ PageLoad
  \/ ChangeScript

SpecScript == InitScript /\ [][NextScript]_vars

-----------------------------------------------------------------------------
(* Reading markup back: a small reader for the documents buildTwiml writes *)

StartsWith(s, p) == Len(s) >= Len(p) /\ SubSeq(s, 1, Len(p)) = p

Drop(s, n) == SubSeq(s, n + 1, Len(s))

\* The longest prefix of s made of characters of set
RECURSIVE Span(_, _)
Span(s, set) ==
  IF s # <<>> /\ Head(s) \in set THEN <<Head(s)>> \o Span(Tail(s), set) ELSE <<>>

DigitValue(c) == CHOOSE d \in 0..9 : Digit(d) = c

RECURSIVE StringToNat(_)
StringToNat(ds) ==
  IF ds = <<>> THEN 0 ELSE 10 * StringToNat(SubSeq(ds, 1, Len(ds) - 1)) + DigitValue(ds[Len(ds)])

\* The text of an element: everything up to the next "<"
RECURSIVE TextRun(_)
TextRun(s) == IF s # <<>> /\ Head(s) # "<" THEN <<Head(s)>> \o TextRun(Tail(s)) ELSE <<>>

SayOpen == SayOpenHead \o voice \o SayOpenTail

\* The texts of the Say elements of rest, which must end with <Hangup/></Response>;
\* <<"malformed">> is appended when rest is anything else
RECURSIVE ReadSays(_)
ReadSays(rest) ==
  IF rest = ResponseClose THEN <<>>
  ELSE IF StartsWith(rest, SayOpen) THEN
    LET inner == Drop(rest, Len(SayOpen))
        text == TextRun(inner)
        after == Drop(inner, Len(text))
    IN  IF StartsWith(after, SayClose)
        THEN <<text>> \o ReadSays(Drop(after, Len(SayClose)))
        ELSE <<text, <<"malformed">> >>
  ELSE << <<"malformed">> >>

\* The document read back: whether it is well formed, the length of its leading Pause
\* (-1 when it has none) and the texts of its Say elements
ReadTwiml(t) ==
  LET body == Drop(t, Len(ResponseOpen))
      hasPause == StartsWith(body, PauseOpen)
      digits == Span(Drop(body, Len(PauseOpen)), Digits)
      afterDigits == Drop(body, Len(PauseOpen) + Len(digits))
      rest == IF hasPause THEN Drop(afterDigits, Len(PauseClose)) ELSE body
      says == ReadSays(rest)
  IN  [wellFormed |-> /\ StartsWith(t, ResponseOpen)
                      /\ hasPause => (digits # <<>> /\ StartsWith(afterDigits, PauseClose))
                      /\ \A i \in 1..Len(says) : says[i] # <<"malformed">>,
       pause |-> IF hasPause /\ digits # <<>> THEN StringToNat(digits) ELSE 0 - 1,
       says |-> says]

Entities == {EntAmp, EntLt, EntGt, EntQuot}

EntityChar(e) ==
  CASE e = EntAmp -> "&" [] e = EntLt -> "<" [] e = EntGt -> ">" [] e = EntQuot -> "\""

\* The entity text starts with, if any
EntityAt(text) == {e \in Entities : StartsWith(text, e)}

\* One pass replacing each entity by the character it stands for
RECURSIVE Unescape(_)
Unescape(text) ==
  IF text = <<>> THEN <<>>
  ELSE IF EntityAt(text) # {} THEN
    LET e == CHOOSE e \in EntityAt(text) : TRUE
    IN  <<EntityChar(e)>> \o Unescape(Drop(text, Len(e)))
  ELSE <<Head(text)>> \o Unescape(Tail(text))

\* No raw < > " in text, and every & starts an entity
NoRawMarkup(text) ==
  \A i \in 1..Len(text) :
    /\ text[i] \notin {"<", ">", "\""}
    /\ text[i] = "&" => EntityAt(Drop(text, i - 1)) # {}

-----------------------------------------------------------------------------
(* Claims about the endpoint, checked under SpecServer                     *)

Served == srv # <<>>

\* The request passed requestSchema and the three credentials are configured
Admitted == Served /\ requestSchema(srv[1].body) = <<>> /\ credentialsSet(env)

\* The request names an instant
HasInstant == IsStr(srv[1].body.scheduledAt) /\ srv[1].body.scheduledAt.v.fmt = "iso"

\* Milliseconds from the processing time to the scheduled instant
AheadMs == srv[1].body.scheduledAt.v.ms - srv[1].now

Rejected422 ==
  /\ srv[1].response.status = 422
  /\ ~srv[1].response.success
  /\ srv[1].calls = <<>>

\* C1 as stated: every admitted request scheduled more than 600 seconds (600000 ms) after
\* the processing time is answered 422 without a provider call
C1_MoreThan600SecondsRejected ==
  (Admitted /\ HasInstant /\ AheadMs > 600000) => Rejected422

\* C1 amended: an admitted request is answered 422, with no provider call, exactly when
\* its schedule lies at least 601 whole seconds after the processing time; a schedule up to
\* 600.999 s ahead (delaySeconds 600 or less) is not rejected by the limit
C1_WholeSecondsOver600Rejected ==
  Admitted =>
    /\ (HasInstant /\ AheadMs >= 601000) => Rejected422
    /\ ~(HasInstant /\ AheadMs >= 601000) => srv[1].response.status # 422

C1_Witness ==
  /\ Admitted /\ HasInstant /\ AheadMs >= 601000
  /\ Rejected422

\* C4: whenever the endpoint computes delaySeconds it is max(0, floor((scheduled - now) /
\* 1000)) for a request that names an instant, 0 for one that names none or one not later
\* than the processing time, and never negative
C4_DelaySeconds ==
  (Served /\ srv[1].delayComputed) =>
    /\ HasInstant => srv[1].delaySeconds = Max(0, AheadMs \div 1000)
    /\ (~HasInstant \/ AheadMs <= 0) => srv[1].delaySeconds = 0
    /\ srv[1].delaySeconds >= 0

C4_Witness ==
  /\ Served /\ srv[1].delayComputed /\ HasInstant
  /\ AheadMs = 299500
  /\ srv[1].delaySeconds = 299

ProviderSucceeded == Served /\ srv[1].response.status = 200

\* C5: on provider success the status is "queued" exactly when delaySeconds > 0 and
\* "in-progress" exactly when it is 0; the markup sent starts with a Pause exactly when
\* the status is "queued", and its length is delaySeconds, at most 600
C5_StatusAndPause ==
  ProviderSucceeded =>
    LET x == srv[1]
        doc == ReadTwiml(x.calls[1].twiml)
    IN  /\ x.response.success
        /\ Len(x.calls) = 1
        /\ x.response.callStatus = "queued" <=> x.delaySeconds > 0
        /\ x.response.callStatus = "in-progress" <=> x.delaySeconds = 0
        /\ doc.pause # 0 - 1 <=> x.response.callStatus = "queued"
        /\ doc.pause # 0 - 1 => (doc.pause = x.delaySeconds /\ doc.pause <= 600)

C5_Witness ==
  /\ ProviderSucceeded
  /\ srv[1].response.callStatus = "queued"
  /\ srv[1].delaySeconds = 600
  /\ ReadTwiml(srv[1].calls[1].twiml).pause = 600

\* C6 as stated: the endpoint rejects with 400, before any provider call, every request
\* the form would reject for a contactName under 2 or an objective under 3 characters
C6_ServerAsStrictAsClient ==
  (Served /\ credentialsSet(env) /\ srv[1].body # NoBody) =>
    LET b == srv[1].body
    IN  ((IsStr(b.contactName) /\ Len(b.contactName.v) < 2)
          \/ (IsStr(b.objective) /\ Len(b.objective.v) < 3))
        => (srv[1].response.status = 400 /\ srv[1].calls = <<>>)

\* C8: every document sent to the provider is well formed (one Response holding an
\* optional Pause, one Say per segment in order, a final Hangup); the text of each Say has
\* no raw < > " and no & outside an entity, and reading its entities back once gives the
\* segment, so each of & < > " was replaced exactly once
C8_EscapedWellFormed ==
  (Served /\ srv[1].calls # <<>>) =>
    LET segments == scriptSegments(srv[1].body)
        doc == ReadTwiml(srv[1].calls[1].twiml)
    IN  /\ doc.wellFormed
        /\ Len(doc.says) = Len(segments)
        /\ \A i \in 1..Len(segments) :
             /\ NoRawMarkup(doc.says[i])
             /\ Unescape(doc.says[i]) = segments[i]

\* a call whose name, objective and notes all hold characters that need escaping
C8_Witness ==
  /\ Served /\ srv[1].calls # <<>>
  /\ srv[1].body.contactName = Str(<<"<", "&", ">">>)
  /\ srv[1].body.objective = Str(<<"&", "a", "m", "p", ";">>)
  /\ srv[1].body.notes = Str(<<"\"", "<", "&", ">">>)
  /\ Len(ReadTwiml(srv[1].calls[1].twiml).says) = 4
  /\ ReadTwiml(srv[1].calls[1].twiml).pause = 300

-----------------------------------------------------------------------------
(* Claims about the history, checked under SpecHistory                     *)

Range(seq) == {seq[i] : i \in 1..Len(seq)}

\* Newest first: creation times and identifiers strictly decrease along the list, and
\* the identifiers are consecutive (no entry is missing between two that are kept)
NewestFirst(log) ==
  \A i \in 1..Len(log) - 1 :
    /\ log[i].createdAt > log[i + 1].createdAt
    /\ log[i].id = log[i + 1].id + 1

\* C2: after every step the history has at most 20 entries, newest first; an entry that
\* is created is placed at the head, in front of the previous list cut to its 19 newest
C2_CappedNewestFirst ==
  [][/\ Len(callLog') <= 20
     /\ NewestFirst(callLog')
     /\ nextId' # nextId =>
          /\ callLog' # <<>>
          /\ callLog'[1].id = nextId'
          /\ Tail(callLog') = SubSeq(callLog, 1, Min(Len(callLog), 19))]_vars

\* the 21st entry has been added: the list is full and the first entry is gone
C2_Witness ==
  /\ Len(callLog) = 20
  /\ callLog[1].id = 21
  /\ callLog[20].id = 2

\* C3 as stated: while the page is loaded, local storage holds exactly the in-memory
\* list (an absent item counting as the empty list)
C3_PersistedEqualsMemory ==
  page = "mounted" =>
    \/ storage.kind = "json" /\ JSONparse(storage.text) = callLog
    \/ storage.kind = "none" /\ callLog = <<>>

-----------------------------------------------------------------------------
(* Claims about validation, checked under SpecValidation                   *)

\* The phone pattern as the claim words it: an optional leading +, then 8 to 15 digits
\* of which the first is 1-9
MatchesE164(s) ==
  LET plus == s # <<>> /\ s[1] = "+"
      ds == IF plus THEN SubSeq(s, 2, Len(s)) ELSE s
  IN  /\ Len(ds) \in 8..15
      /\ \A i \in 1..Len(ds) : ds[i] \in {"0", "1", "2", "3", "4", "5", "6", "7", "8", "9"}
      /\ ds[1] # "0"

\* handleSubmit ran in this step
SubmitStep == submits' = submits + 1

\* The endpoint served a request in this step
ServeStep ==
  \/ wire # <<>> /\ wire' = <<>>
  \/ net.stage = "request" /\ net'.stage = "response"

\* The form rejects a submission whose phone number does not match: the message of the
\* phone rule is attached to the phoneNumber field and nothing is sent
ClientRejectsPhone ==
  (SubmitStep /\ ~MatchesE164(form.phoneNumber)) =>
    /\ errors'.phoneNumber = "Provide a valid E.164 formatted number (e.g. +15551234567)"
    /\ ~loading'
    /\ net' = net

ServedBadPhone ==
  /\ ServeStep
  /\ srv'[1].body # NoBody
  /\ IsStr(srv'[1].body.phoneNumber)
  /\ ~MatchesE164(srv'[1].body.phoneNumber.v)

ServerRejects400 ==
  /\ srv'[1].response.status = 400
  /\ ~srv'[1].response.success
  /\ srv'[1].calls = <<>>

\* C7 as stated: form and endpoint both reject a phone number that does not match, each
\* with the message of the phone number rule, whatever the other fields contain
C7_BothNamePhoneField ==
  [][/\ ClientRejectsPhone
     /\ ServedBadPhone =>
          (ServerRejects400 /\ srv'[1].response.message.text = "Invalid")]_vars

\* C7 amended: the form attaches the phone message to the phoneNumber field whatever the
\* other fields contain; the endpoint answers 400 without calling the provider, and its
\* single message is that of the phone rule only when contactName, which the schema
\* checks first, is valid: otherwise it is the message of the contactName rule
C7_BothRejectFirstIssueWins ==
  [][/\ ClientRejectsPhone
     /\ ServedBadPhone =>
          /\ ServerRejects400
          /\ srv'[1].response.message.text =
               IF IsStr(srv'[1].body.contactName) /\ Len(srv'[1].body.contactName.v) >= 1
               THEN "Invalid"
               ELSE "String must contain at least 1 character(s)"]_vars

\* the endpoint has rejected a bad phone number and so has the form
C7_Witness ==
  /\ srv # <<>>
  /\ IsStr(srv[1].body.phoneNumber) /\ ~MatchesE164(srv[1].body.phoneNumber.v)
  /\ srv[1].response.status = 400
  /\ srv[1].response.message.text = "Invalid"
  /\ submits = 1
  /\ ~MatchesE164(form.phoneNumber)
  /\ form.phoneNumber # <<>>
  /\ form.contactName = <<>>
  /\ errors.phoneNumber # ""

-----------------------------------------------------------------------------
(* Claim about the preview, checked under SpecScript                       *)

Blank(text) == \A i \in 1..Len(text) : text[i] \in {" ", "\n", "\t"}

\* The segments the claim describes: five in fixed order, then the notes only if they
\* are not blank; an empty name or objective gives way to its fallback phrase
ClaimedSegments(f) ==
  <<IntroHeading \o IntroHi
      \o (IF f.contactName = <<>> THEN NameFallback ELSE f.contactName) \o IntroAfterName,
    ObjectiveHeading
      \o (IF f.objective = <<>> THEN ObjectiveFallback ELSE f.objective) \o Quote,
    ToneHeading \o stylePresetTone(f.scriptStyle),
    FlowHeading \o FlowSteps,
    ClosingHeading \o stylePresetClosing(f.scriptStyle)>>
  \o (IF Blank(f.notes) THEN <<>> ELSE <<NotesHeading \o f.notes>>)

\* C9 as stated: the preview is the claimed segments joined by one blank line
C9_NotesOnlyIfNonBlank ==
  page = "mounted" => script = join(ClaimedSegments(form), <<"\n", "\n">>)

-----------------------------------------------------------------------------
(* Claim about the life of history entries, checked under Spec             *)

\* The handler received the response in this step: its message is in the banner
ResponseReceived ==
  /\ net.stage = "response"
  /\ net'.stage = "none"
  /\ banner'.tone \in {"success", "error"}
  /\ banner'.message = net.data.message

\* The fetch failed in this step: the banner says the service could not be reached
FetchFailed ==
  /\ net.stage # "none"
  /\ net'.stage = "none"
  /\ banner'.message.text = "We could not reach the calling service."

\* The status the claim gives the entry of a response
ClaimedStatus(data) ==
  CASE data.callStatus # "none" -> data.callStatus
    [] data.callStatus = "none" /\ data.success -> "queued"
    [] data.callStatus = "none" /\ ~data.success -> "failed"

\* C10: an entry is created exactly in the steps that receive a response: that step puts
\* one entry with the response's status (or queued / failed by the success flag) in front
\* of the list; a submission the form rejects sends nothing and adds nothing; a failed
\* fetch adds nothing; and every entry of the list is either the new one or an entry of
\* the previous list or of local storage, unchanged
C10_EntryPerResponse ==
  [][/\ ResponseReceived <=> nextId' = nextId + 1
     /\ nextId' # nextId => nextId' = nextId + 1
     /\ ResponseReceived =>
          /\ Len(callLog') = Min(Len(callLog) + 1, 20)
          /\ Tail(callLog') = SubSeq(callLog, 1, Len(callLog') - 1)
          /\ callLog'[1].id = nextId'
          /\ callLog'[1].status = ClaimedStatus(net.data)
          /\ callLog'[1].message = net.data.message
          /\ callLog'[1].phoneNumber = net.payload.phoneNumber
     /\ (SubmitStep /\ callRequestSchema(form) # <<>>) =>
          (net' = net /\ net.stage = "none" /\ callLog' = callLog /\ srv' = srv)
     /\ FetchFailed => (callLog' = callLog /\ storage' = storage)
     /\ \A i \in 1..Len(callLog') :
          \/ callLog'[i].id = nextId + 1
          \/ callLog'[i] \in Range(callLog)
          \/ storage.kind = "json" /\ callLog'[i] \in Range(JSONparse(storage.text))]_vars

\* two responses received: a failure on top of a call in progress
C10_Witness ==
  /\ Len(callLog) = 2
  /\ callLog[1].status = "failed"
  /\ callLog[2].status = "in-progress"
  /\ callLog[1].id = 2
  /\ submits = 2

-----------------------------------------------------------------------------
(* Claim about the order of the endpoint's checks, checked under SpecServer *)

AllThreeConfigured ==
  env.TWILIO_ACCOUNT_SID = TRUE /\ env.TWILIO_AUTH_TOKEN = TRUE
    /\ env.TWILIO_FROM_NUMBER = TRUE

\* The schedule lies 601 whole seconds or more after the processing time
OverLimit == HasInstant /\ AheadMs >= 601000

\* C11: the response is that of the first failing check in the order body validation
\* (400), credentials (500), schedule limit (422), provider call (502); the provider is
\* called once, never twice, and only when the first three checks pass
C11_FirstFailingCheckDecides ==
  Served =>
    LET x == srv[1]
        valid == requestSchema(x.body) = <<>>
    IN  /\ ~valid => x.response.status = 400
        /\ (valid /\ ~AllThreeConfigured) => x.response.status = 500
        /\ (valid /\ AllThreeConfigured /\ OverLimit) => x.response.status = 422
        /\ (valid /\ AllThreeConfigured /\ ~OverLimit) =>
             (x.response.status \in {200, 502} /\ Len(x.calls) = 1)
        /\ x.response.status \in {400, 500, 422} => x.calls = <<>>
        /\ Len(x.calls) <= 1
        /\ x.response.success <=> x.response.status = 200

\* a valid request scheduled too far ahead, served without credentials: 500, not 422
C11_Witness ==
  /\ Served
  /\ requestSchema(srv[1].body) = <<>>
  /\ ~AllThreeConfigured
  /\ OverLimit
  /\ srv[1].response.status = 500
  /\ srv[1].calls = <<>>

-----------------------------------------------------------------------------
(* Claim about the end of a submission, checked under Spec                 *)

\* C12 as stated: once a submission is over (no fetch of it is in flight) the loading
\* flag is false again, so the submit button is enabled
C12_LoadingResetOnEveryPath ==
  (page = "mounted" /\ net.stage = "none") => ~loading
====
